---- MODULE Spec2Model ----
(* Model of package climate (climate.go): plan construction (Func, Struct),  *)
(* the exit-code mapping (exitCode), run options (WithMetadata) and the      *)
(* orchestrator (Run, RunAndExit).                                           *)
EXTENDS Integers, Sequences, FiniteSets, TLC

\* ---------------------------------------------------------------- bounds
MaxCode == 2        \* exit codes range over -1..MaxCode
MaxWrapDepth == 1   \* how many times an error may be wrapped (fmt.Errorf %w)
MaxMods == 2        \* number of modifiers passed to one Run call
MaxRuns == 2        \* number of Run / RunAndExit calls in one process
MaxSub == 1         \* number of subcommands passed to Struct

VARIABLES
    \* --- plan construction and the callable plan ---
    planPc,        \* "idle" | "constructed" | "executed" | "panicked"
    request,       \* the constructor called and the value / type given to it
    plan,          \* the plan returned by Func / Struct, or NoPlan
    failure,       \* how the construction or the execution failed
    supplied,      \* roles handed to the callable, in the order of the call
    planErr,       \* error returned by the plan's execute
    \* --- one Run call ---
    pc,            \* position inside Run / RunAndExit
    caller,        \* "Run" | "RunAndExit" | "none"
    mods,          \* modifiers not yet applied (payloads of WithMetadata)
    opts,          \* runOptions: the metadata pointer
    md,            \* *internal.Metadata handed to execute
    decodeCalls,   \* calls of internal.DecodeAsMetadata in this Run
    parentDone,    \* the caller-supplied parent context is cancelled
    ctxCreated,    \* contexts created by context.WithCancel in this Run
    cancelCalled,  \* the cancel function of this Run's context was called
    executeCalls,  \* calls of p.execute in this Run
    execArgs,      \* what execute received
    err,           \* error returned by p.execute
    doneAtReturn,  \* the context was cancelled when execute returned
    panicking,     \* Run is unwinding because of a panic
    code,          \* value returned by Run
    exitStatus,    \* argument of os.Exit, or NoExit
    trace,         \* steps of the current Run after the modifiers, in order
    lastMod,       \* payload of the last modifier passed to this Run
    prev,          \* what the previous Run returned, and for which error
    runs           \* Run calls started so far

planVars == <<planPc, request, plan, failure, supplied, planErr>>
runVars == <<pc, caller, mods, opts, md, decodeCalls, parentDone, ctxCreated,
              cancelCalled, executeCalls, execArgs, err, doneAtReturn,
              panicking, code, exitStatus, trace, lastMod, prev, runs>>
vars == <<planVars, runVars>>

\* ------------------------------------------------------------ error values
Codes == (0 - 1)..MaxCode

\* The nil error interface value.
NilError == [kind |-> "nil", nilptr |-> FALSE, code |-> 0, depth |-> 0]

\* Non-nil error values a plan can return. kind is the concrete type at the
\* bottom of the chain, depth the number of wrappers around it, nilptr a nil
\* pointer of that concrete type stored in the interface.
Errors ==
    {NilError}
    \cup [kind : {"*exitError", "*exec.ExitError"}, nilptr : {FALSE},
          code : Codes, depth : 0..MaxWrapDepth]
    \cup [kind : {"*exitError", "*exec.ExitError"}, nilptr : {TRUE},
          code : {0}, depth : 0..MaxWrapDepth]
    \cup [kind : {"*errors.errorString"}, nilptr : {FALSE},
          code : {0}, depth : 0..MaxWrapDepth]

\* Dynamic type that a type switch on the interface value sees.
DynType(e) ==
    IF e.depth > 0 THEN "*fmt.wrapError" ELSE e.kind

Returned(c) == [panic |-> FALSE, code |-> c]
Panicked == [panic |-> TRUE, code |-> 0]

\* Mutants of exitCode.
exitCode_IgnoresCarried(e) ==
    IF e = NilError THEN Returned(0)
    ELSE IF DynType(e) = "*exec.ExitError"
         THEN (IF e.nilptr THEN Panicked ELSE Returned(e.code))
         ELSE Returned(1)

exitCode_CtxAware(e) ==
    IF e = NilError THEN Returned(0)
    ELSE IF doneAtReturn THEN Returned(1)
    ELSE CASE DynType(e) = "*exitError" ->
                IF e.nilptr THEN Panicked ELSE Returned(e.code)
           [] DynType(e) = "*exec.ExitError" ->
                IF e.nilptr THEN Panicked ELSE Returned(e.code)
           [] OTHER -> Returned(1)

\* func exitCode(err error) int
exitCode(e) ==
    IF e = NilError THEN Returned(0)
    ELSE CASE DynType(e) = "*exitError" ->
                IF e.nilptr THEN Panicked ELSE Returned(e.code)
           [] DynType(e) = "*exec.ExitError" ->
                IF e.nilptr THEN Panicked ELSE Returned(e.code)
           [] OTHER -> Returned(1)

\* ------------------------------------------------------------- run options
Payloads == {"nil", "good", "bad"}

NilPtr == [set |-> FALSE, b |-> "nil"]
NilMetadata == "nil"
NoExit == [exited |-> FALSE, status |-> 0]
Exited(status) == [exited |-> TRUE, status |-> status]
NoMod == "none"
NoObs == [valid |-> FALSE, err |-> NilError, done |-> FALSE, code |-> 0]

\* type runOptions struct{ metadata *[]byte }; var opts runOptions
ZeroRunOptions == [metadata |-> NilPtr]

\* Mutant of WithMetadata: an earlier payload is kept.
WithMetadata_FirstWins(b, o) ==
    IF o.metadata.set THEN o ELSE [o EXCEPT !.metadata = [set |-> TRUE, b |-> b]]

\* func WithMetadata(b []byte) func(*runOptions): the modifier applied to o.
WithMetadata(b, o) ==
    [o EXCEPT !.metadata = [set |-> TRUE, b |-> b]]

\* internal.DecodeAsMetadata: the outcomes of decoding payload b.
DecodeAsMetadata(b) ==
    CASE b = "bad"  -> {[fatal |-> TRUE, md |-> NilMetadata]}
      [] b = "nil"  -> {[fatal |-> TRUE, md |-> NilMetadata],
                        [fatal |-> FALSE, md |-> "Metadata()"]}
      [] OTHER      -> {[fatal |-> FALSE, md |-> "Metadata(" \o b \o ")"]}

\* ------------------------------------------------------- the orchestrator
NoArgs == [ctx |-> 0 - 1, md |-> NilMetadata]

\* The context Run derives from its parent is done when its cancel function
\* was called or when the parent is done.
CtxDone == cancelCalled \/ parentDone

RunActive == pc \in {"mods", "mkctx", "call", "executing", "exitCode", "deferred"}

\* Entry of Run (viaExit = FALSE) or of RunAndExit, which calls
\* Run(context.Background(), p, mods...). `var opts runOptions`.
Enter(ms, pdone, viaExit) ==
    /\ pc \in {"idle", "panicked"} \/ (pc = "returned" /\ caller = "Run")
    /\ runs < MaxRuns
    /\ runs' = runs + 1
    /\ caller' = IF viaExit THEN "RunAndExit" ELSE "Run"
    /\ parentDone' = IF viaExit THEN FALSE ELSE pdone
    /\ mods' = ms
    /\ opts' = ZeroRunOptions
    /\ md' = NilMetadata
    /\ decodeCalls' = 0
    /\ ctxCreated' = 0
    /\ cancelCalled' = FALSE
    /\ executeCalls' = 0
    /\ execArgs' = NoArgs
    /\ err' = NilError
    /\ doneAtReturn' = FALSE
    /\ panicking' = FALSE
    /\ code' = 0
    /\ trace' = <<>>
    /\ lastMod' = IF ms = <<>> THEN NoMod ELSE ms[Len(ms)]
    /\ prev' = IF pc = "returned"
               THEN [valid |-> TRUE, err |-> err, done |-> doneAtReturn,
                     code |-> code]
               ELSE prev
    /\ pc' = "mods"
    /\ UNCHANGED <<exitStatus, planVars>>

ModLists == UNION {[1..n -> Payloads] : n \in 0..MaxMods}

Run_Call == \E ms \in ModLists, pdone \in BOOLEAN : Enter(ms, pdone, FALSE)

RunAndExit_Call == \E ms \in ModLists : Enter(ms, FALSE, TRUE)

\* for _, mod := range mods { mod(&opts) }: one iteration.
Run_ApplyMod ==
    /\ pc = "mods"
    /\ mods # <<>>
    /\ opts' = WithMetadata(Head(mods), opts)
    /\ mods' = Tail(mods)
    /\ UNCHANGED <<pc, caller, md, decodeCalls, parentDone, ctxCreated,
                   cancelCalled, executeCalls, execArgs, err, doneAtReturn,
                   panicking, code, exitStatus, trace, lastMod, prev, runs,
                   planVars>>

\* Mutant of Run_Decode: a failed decode leaves md nil and Run goes on.
Run_Decode_Lenient ==
    /\ pc = "mods"
    /\ mods = <<>>
    /\ IF opts.metadata.set
       THEN \E r \in DecodeAsMetadata(opts.metadata.b) :
              /\ decodeCalls' = decodeCalls + 1
              /\ trace' = Append(trace, "decode")
              /\ md' = r.md
              /\ pc' = "mkctx"
       ELSE /\ md' = NilMetadata
            /\ pc' = "mkctx"
            /\ UNCHANGED <<decodeCalls, trace>>
    /\ UNCHANGED <<caller, mods, opts, parentDone, ctxCreated, cancelCalled,
                   executeCalls, execArgs, err, doneAtReturn, panicking, code,
                   exitStatus, lastMod, prev, runs, planVars>>

\* var md *internal.Metadata
\* if opts.metadata != nil { md = internal.DecodeAsMetadata(*opts.metadata) }
Run_Decode ==
    /\ pc = "mods"
    /\ mods = <<>>
    /\ IF opts.metadata.set
       THEN \E r \in DecodeAsMetadata(opts.metadata.b) :
              /\ decodeCalls' = decodeCalls + 1
              /\ trace' = Append(trace, "decode")
              /\ IF r.fatal
                 THEN pc' = "fatal" /\ md' = md
                 ELSE pc' = "mkctx" /\ md' = r.md
       ELSE /\ md' = NilMetadata
            /\ pc' = "mkctx"
            /\ UNCHANGED <<decodeCalls, trace>>
    /\ UNCHANGED <<caller, mods, opts, parentDone, ctxCreated, cancelCalled,
                   executeCalls, execArgs, err, doneAtReturn, panicking, code,
                   exitStatus, lastMod, prev, runs, planVars>>

\* ctx, cancel := context.WithCancel(ctx); defer cancel()
Run_WithCancel ==
    /\ pc = "mkctx"
    /\ ctxCreated' = ctxCreated + 1
    /\ cancelCalled' = FALSE
    /\ trace' = Append(trace, "withcancel")
    /\ pc' = "call"
    /\ UNCHANGED <<caller, mods, opts, md, decodeCalls, parentDone,
                   executeCalls, execArgs, err, doneAtReturn, panicking, code,
                   exitStatus, lastMod, prev, runs, planVars>>

\* p.execute(ctx, md): the call.
Run_Execute ==
    /\ pc = "call"
    /\ executeCalls' = executeCalls + 1
    /\ execArgs' = [ctx |-> runs, md |-> md]
    /\ trace' = Append(trace, "execute")
    /\ pc' = "executing"
    /\ UNCHANGED <<caller, mods, opts, md, decodeCalls, parentDone, ctxCreated,
                   cancelCalled, err, doneAtReturn, panicking, code,
                   exitStatus, lastMod, prev, runs, planVars>>

\* The owner of the parent context cancels it while Run is active.
CancelParent ==
    /\ RunActive
    /\ caller = "Run"
    /\ ~parentDone
    /\ parentDone' = TRUE
    /\ UNCHANGED <<pc, caller, mods, opts, md, decodeCalls, ctxCreated,
                   cancelCalled, executeCalls, execArgs, err, doneAtReturn,
                   panicking, code, exitStatus, trace, lastMod, prev, runs,
                   planVars>>

\* p.execute returns error e. In Spec the plan p is any implementation of
\* the plan interface: it may return every error value, or panic.
Plan_Return ==
    /\ pc = "executing"
    /\ \E e \in Errors : err' = e
    /\ doneAtReturn' = CtxDone
    /\ pc' = "exitCode"
    /\ UNCHANGED <<caller, mods, opts, md, decodeCalls, parentDone, ctxCreated,
                   cancelCalled, executeCalls, execArgs, panicking, code,
                   exitStatus, trace, lastMod, prev, runs, planVars>>

\* p.execute panics.
Plan_Panic ==
    /\ pc = "executing"
    /\ panicking' = TRUE
    /\ doneAtReturn' = CtxDone
    /\ pc' = "deferred"
    /\ UNCHANGED <<caller, mods, opts, md, decodeCalls, parentDone, ctxCreated,
                   cancelCalled, executeCalls, execArgs, err, code,
                   exitStatus, trace, lastMod, prev, runs, planVars>>

\* return exitCode(...): the result is computed, the deferred call is pending.
Run_ExitCode ==
    /\ pc = "exitCode"
    /\ LET r == exitCode(err) IN
         /\ panicking' = r.panic
         /\ code' = r.code
    /\ trace' = Append(trace, "exitCode")
    /\ pc' = "deferred"
    /\ UNCHANGED <<caller, mods, opts, md, decodeCalls, parentDone, ctxCreated,
                   cancelCalled, executeCalls, execArgs, err, doneAtReturn,
                   exitStatus, lastMod, prev, runs, planVars>>

\* Mutant of Run_Deferred: cancel is called on the normal return only.
Run_Deferred_NotOnPanic ==
    /\ pc = "deferred"
    /\ cancelCalled' = ~panicking
    /\ trace' = IF panicking THEN trace ELSE Append(trace, "cancel")
    /\ pc' = IF panicking THEN "panicked" ELSE "returned"
    /\ UNCHANGED <<caller, mods, opts, md, decodeCalls, parentDone, ctxCreated,
                   executeCalls, execArgs, err, doneAtReturn, panicking, code,
                   exitStatus, lastMod, prev, runs, planVars>>

\* defer cancel() runs, then Run returns code or the panic goes on.
Run_Deferred ==
    /\ pc = "deferred"
    /\ cancelCalled' = TRUE
    /\ trace' = Append(trace, "cancel")
    /\ pc' = IF panicking THEN "panicked" ELSE "returned"
    /\ UNCHANGED <<caller, mods, opts, md, decodeCalls, parentDone, ctxCreated,
                   executeCalls, execArgs, err, doneAtReturn, panicking, code,
                   exitStatus, lastMod, prev, runs, planVars>>

\* Mutant of RunAndExit_Exit: the process always exits with status 0.
RunAndExit_Exit_Zero ==
    /\ pc = "returned"
    /\ caller = "RunAndExit"
    /\ exitStatus' = Exited(0)
    /\ pc' = "exited"
    /\ UNCHANGED <<caller, mods, opts, md, decodeCalls, parentDone, ctxCreated,
                   cancelCalled, executeCalls, execArgs, err, doneAtReturn,
                   panicking, code, trace, lastMod, prev, runs, planVars>>

\* os.Exit(Run(context.Background(), p, mods...)): the exit.
RunAndExit_Exit ==
    /\ pc = "returned"
    /\ caller = "RunAndExit"
    /\ exitStatus' = Exited(code)
    /\ pc' = "exited"
    /\ UNCHANGED <<caller, mods, opts, md, decodeCalls, parentDone, ctxCreated,
                   cancelCalled, executeCalls, execArgs, err, doneAtReturn,
                   panicking, code, trace, lastMod, prev, runs, planVars>>

InitRun ==
    /\ pc = "idle"
    /\ caller = "none"
    /\ mods = <<>>
    /\ opts = ZeroRunOptions
    /\ md = NilMetadata
    /\ decodeCalls = 0
    /\ parentDone = FALSE
    /\ ctxCreated = 0
    /\ cancelCalled = FALSE
    /\ executeCalls = 0
    /\ execArgs = NoArgs
    /\ err = NilError
    /\ doneAtReturn = FALSE
    /\ panicking = FALSE
    /\ code = 0
    /\ exitStatus = NoExit
    /\ trace = <<>>
    /\ lastMod = NoMod
    /\ prev = NoObs
    /\ runs = 0


\* ------------------------------------------------------ plan construction
\* Parameter types a function handed to Func may declare.
ParamTypes == {"context.Context", "*T", "[]string", "int"}

\* The signatures of the doc comment of Func,
\*   func([ctx context.Context], [opts *T], [args []string]) [(err error)]
\* and two that do not conform to it.
ParamLists ==
    { <<>>, <<"context.Context">>, <<"*T">>, <<"[]string">>,
      <<"context.Context", "*T">>, <<"context.Context", "[]string">>,
      <<"*T", "[]string">>, <<"context.Context", "*T", "[]string">>,
      <<"int">>, <<"[]string", "context.Context">> }

\* reflect.Type: its Kind, and for a function its parameters and whether it
\* returns an error. NilType is the nil reflect.Type.
FuncTypes == [kind : {"Func"}, name : {"func"}, params : ParamLists,
               returnsErr : BOOLEAN]
OtherTypes == [kind : {"Int", "String", "Slice", "Ptr", "Interface"},
               name : {"-"}, params : {<<>>}, returnsErr : {FALSE}]
StructTypes == [kind : {"Struct"}, name : {"A", "B"}, params : {<<>>},
                returnsErr : {FALSE}]
Types == FuncTypes \cup OtherTypes \cup StructTypes
NilType == [kind |-> "<nil>", name |-> "-", params |-> <<>>,
            returnsErr |-> FALSE]

\* Values of type any passed to Func: the untyped nil, or a value of a type.
NilValue == [type |-> NilType]
Values == {NilValue} \cup [type : Types]

\* reflect.TypeOf(f): nil for the nil interface value.
TypeOf(f) == f.type

NoPlan == [variant |-> "none", ot |-> NilType, ov |-> NilValue,
           ptr |-> NilType, subcommands |-> <<>>]
Built(p) == [plan |-> p, failure |-> "none"]
Failed(m) == [plan |-> NoPlan, failure |-> m]

\* reflect.PtrTo / Type.Elem for the pointer type *T.
PtrTo(t) == [kind |-> "Ptr", name |-> "*", params |-> <<>>,
             returnsErr |-> FALSE, elem |-> t]
Elem(ptr) == ptr.elem

\* Mutants of Func: the kind is not asserted; the stored type loses its
\* last parameter.
Func_NoAssert(f) ==
    LET t == TypeOf(f) IN
    Built([variant |-> "funcPlan", ot |-> t, ov |-> f, ptr |-> NilType,
           subcommands |-> <<>>])

Func_DropsLastParam(f) ==
    LET t == TypeOf(f) IN
    IF t = NilType THEN Failed("nil pointer dereference")
    ELSE IF t.kind # "Func" THEN Failed("not a func")
    ELSE Built([variant |-> "funcPlan",
                ot |-> [t EXCEPT !.params =
                          IF t.params = <<>> THEN <<>>
                          ELSE SubSeq(t.params, 1, Len(t.params) - 1)],
                ov |-> f, ptr |-> NilType, subcommands |-> <<>>])

\* func Func(f any) *funcPlan
\*   t := reflect.TypeOf(f)           (nil for a nil f: t.Kind() panics)
\*   assert.Truef(t.Kind() == reflect.Func, "not a func: %v", t)
\*   return &funcPlan{reflection{ot: t, ov: &v}}
Func(f) ==
    LET t == TypeOf(f) IN
    IF t = NilType THEN Failed("nil pointer dereference")
    ELSE IF t.kind # "Func" THEN Failed("not a func")
    ELSE Built([variant |-> "funcPlan", ot |-> t, ov |-> f, ptr |-> NilType,
                subcommands |-> <<>>])

\* func Struct[T any](subcommands ...*structPlan) *structPlan
\*   ptr = reflect.TypeOf((*T)(nil)); t = ptr.Elem()
\*   assert.Truef(t.Kind() == reflect.Struct, "not a struct: %v", t)
\*   return &structPlan{reflection{ptr: &reflection{ot: ptr}, ot: t}, subcommands}
Struct(T, subcommands) ==
    LET ptr == PtrTo(T)
        t   == Elem(ptr)
    IN IF t.kind # "Struct" THEN Failed("not a struct")
       ELSE Built([variant |-> "structPlan", ot |-> t, ov |-> NilValue,
                   ptr |-> ptr, subcommands |-> subcommands])

\* Subcommand plans: struct plans without subcommands of their own.
LeafPlans == {Struct(T, <<>>).plan : T \in StructTypes}
SubLists == UNION {[1..n -> LeafPlans] : n \in 0..MaxSub}

\* A call of Func(f).
Func_Call ==
    /\ planPc = "idle"
    /\ \E f \in Values :
         LET r == Func(f) IN
           /\ request' = [op |-> "Func", type |-> f.type]
           /\ plan' = r.plan
           /\ failure' = r.failure
           /\ planPc' = IF r.failure = "none" THEN "constructed" ELSE "panicked"
    /\ UNCHANGED <<supplied, planErr, runVars>>

\* A call of Struct[T](subcommands...).
Struct_Call ==
    /\ planPc = "idle"
    /\ \E T \in Types, subs \in SubLists :
         LET r == Struct(T, subs) IN
           /\ request' = [op |-> "Struct", type |-> T]
           /\ plan' = r.plan
           /\ failure' = r.failure
           /\ planPc' = IF r.failure = "none" THEN "constructed" ELSE "panicked"
    /\ UNCHANGED <<supplied, planErr, runVars>>

\* ------------------------------------------------------- the callable plan
Roles == <<"ctx", "opts", "args">>

RoleOf(paramType) ==
    CASE paramType = "context.Context" -> "ctx"
      [] paramType = "*T"              -> "opts"
      [] paramType = "[]string"        -> "args"
      [] OTHER                         -> "unrecognized"

\* Classification of a signature against [context?] [options?] [args?].
Classify(t) ==
    LET p  == t.params
        i1 == IF Len(p) >= 1 /\ RoleOf(p[1]) = "ctx" THEN 1 ELSE 0
        i2 == IF Len(p) >= i1 + 1 /\ RoleOf(p[i1 + 1]) = "opts"
              THEN i1 + 1 ELSE i1
        i3 == IF Len(p) >= i2 + 1 /\ RoleOf(p[i2 + 1]) = "args"
              THEN i2 + 1 ELSE i2
    IN [valid |-> i3 = Len(p), ctx |-> i1 = 1, opts |-> i2 > i1,
        args |-> i3 > i2]

IsIn(c, role) ==
    CASE role = "ctx" -> c.ctx [] role = "opts" -> c.opts [] OTHER -> c.args

\* The arguments of the call: the classified roles, in canonical order.
Arguments(c) == SelectSeq(Roles, LAMBDA r : IsIn(c, r))

\* Errors the callable itself returns.
CallableErrors == {e \in Errors : e.depth = 0}

\* funcPlan.execute: classify plan.ot, call plan.ov with the classified
\* roles, hand back the error the callable returns.
funcPlan_execute ==
    /\ planPc = "constructed"
    /\ plan.variant = "funcPlan"
    /\ LET c == Classify(plan.ot) IN
         IF c.valid
         THEN /\ supplied' = Arguments(c)
              /\ \E e \in CallableErrors :
                   planErr' = IF plan.ot.returnsErr THEN e ELSE NilError
              /\ planPc' = "executed"
              /\ UNCHANGED failure
         ELSE /\ failure' = "invalid shape"
              /\ planPc' = "panicked"
              /\ UNCHANGED <<supplied, planErr>>
    /\ UNCHANGED <<request, plan, runVars>>

InitPlan ==
    /\ planPc = "idle"
    /\ request = [op |-> "none", type |-> NilType]
    /\ plan = NoPlan
    /\ failure = "none"
    /\ supplied = <<>>
    /\ planErr = NilError

Init == InitPlan /\ InitRun

Next ==
    \/ Run_Call
    \/ RunAndExit_Call
    \/ Run_ApplyMod
    \/ Run_Decode
    \/ Run_WithCancel
    \/ Run_Execute
    \/ CancelParent
    \/ Plan_Return
    \/ Plan_Panic
    \/ Run_ExitCode
    \/ Run_Deferred
    \/ RunAndExit_Exit

Spec == Init /\ [][Next]_vars

NextPlan ==
    \/ Func_Call
    \/ Struct_Call
    \/ funcPlan_execute

SpecPlan == Init /\ [][NextPlan]_vars

\* ================================================================= claims
RunReturned == pc \in {"returned", "exited"}
RunEnded == pc \in {"returned", "exited", "panicked", "fatal"}

\* C1: for the error e that execute returned, Run returns 0 when e is nil,
\* the carried code when e is itself an *exitError, the subprocess's exit
\* code when e is itself an *exec.ExitError, and 1 for every other error.
C1_ExitCodeMapping ==
    RunReturned =>
      /\ (err = NilError => code = 0)
      /\ (err # NilError /\ err.depth = 0 /\ err.kind = "*exitError"
            => code = err.code)
      /\ (err # NilError /\ err.depth = 0 /\ err.kind = "*exec.ExitError"
            => code = err.code)
      /\ (err # NilError
            /\ ~(err.depth = 0 /\ err.kind \in {"*exitError", "*exec.ExitError"})
            => code = 1)

C1_Witness ==
    /\ pc = "returned"
    /\ err.kind = "*exitError" /\ err.depth = 0
    /\ err.code = 2 /\ code = 2

\* C2: when execute returns an error that wraps a subprocess-termination
\* error whose process exited with code M, Run returns M, at every depth of
\* wrapping.
C2_WrappedSubprocessCode ==
    (RunReturned /\ err.kind = "*exec.ExitError" /\ err.depth > 0
       /\ ~err.nilptr)
      => code = err.code

\* C3: a Run call creates one cancellable context, never more, and the
\* context is cancelled when Run has ended, whether execute returned nil,
\* returned an error or panicked; no context created by Run is left
\* uncancelled after the Run call has ended.
C3_ContextCancelledOnEveryExit ==
    /\ ctxCreated <= 1
    /\ (executeCalls > 0 => ctxCreated = 1 /\ execArgs.ctx = runs)
    /\ (pc \in {"returned", "exited", "panicked"}
          => ctxCreated = 1 /\ cancelCalled /\ CtxDone)
    /\ (RunEnded /\ ctxCreated > 0 => cancelCalled)

C3_Witness ==
    /\ pc = "panicked"
    /\ executeCalls = 1
    /\ ctxCreated = 1
    /\ cancelCalled

\* C4: two runs in which execute returned the same error return the same
\* code, whether or not the context was cancelled before execute returned.
C4_CodeIndependentOfCancellation ==
    (pc = "returned" /\ prev.valid /\ prev.err = err) => prev.code = code

C4_Witness ==
    /\ pc = "returned"
    /\ prev.valid
    /\ prev.err = err
    /\ err # NilError
    /\ prev.done # doneAtReturn
    /\ prev.code = code

\* C5: with no WithMetadata modifier, or with WithMetadata given a nil
\* payload, nothing is decoded, execute receives nil Metadata and Run goes on
\* to execute the plan.
C5_NilPayloadNotDecoded ==
    (pc \notin {"idle", "mods"} /\ lastMod \in {NoMod, "nil"})
      => /\ decodeCalls = 0
         /\ pc # "fatal"
         /\ (executeCalls > 0 => execArgs.md = NilMetadata)

\* C6: with a malformed payload set, Run fails fatally: execute is not
\* called, no code is returned, and no Metadata stands in for the failed
\* decode.
C6_MalformedIsFatal ==
    (opts.metadata.set /\ opts.metadata.b = "bad" /\ mods = <<>>
       /\ (pc # "mods" \/ decodeCalls > 0))
      => /\ pc = "fatal"
         /\ decodeCalls = 1
         /\ executeCalls = 0
         /\ execArgs = NoArgs
         /\ md = NilMetadata

C6_Witness ==
    /\ pc = "fatal"
    /\ opts.metadata.set /\ opts.metadata.b = "bad"
    /\ decodeCalls = 1
    /\ executeCalls = 0

C8_ExitState ==
    exitStatus # NoExit
      => caller = "RunAndExit" /\ pc = "exited" /\ exitStatus = Exited(code)

C8_ExitStep ==
    /\ (exitStatus' # exitStatus
          => caller = "RunAndExit" /\ pc = "returned"
             /\ exitStatus' = Exited(code))
    /\ (caller = "RunAndExit" /\ pc = "returned"
          => pc' = "exited" /\ exitStatus' = Exited(code) /\ runs' = runs)
    /\ pc # "exited"

\* C8 as one formula: the exit status is set only by RunAndExit, to the code
\* Run returned, and every step obeys C8_ExitStep.
C8_SoleExitPoint == []C8_ExitState /\ [][C8_ExitStep]_vars

C8_Witness ==
    /\ pc = "exited"
    /\ caller = "RunAndExit"
    /\ err.kind = "*exitError"
    /\ exitStatus = Exited(2)

\* C9: for each of the 8 conforming signatures the callable is called with
\* exactly the roles it declares, in the order context, options, arguments:
\* none twice, none omitted, none undeclared.
ConformingParamLists ==
    { <<>>, <<"context.Context">>, <<"*T">>, <<"[]string">>,
      <<"context.Context", "*T">>, <<"context.Context", "[]string">>,
      <<"*T", "[]string">>, <<"context.Context", "*T", "[]string">> }

Position(role) == CHOOSE i \in 1..3 : Roles[i] = role

IsPrefix(a, b) == Len(a) <= Len(b) /\ a = SubSeq(b, 1, Len(a))

C10_StepOrder ==
    LET decoded == IF opts.metadata.set THEN <<"decode">> ELSE <<>>
        normal  == decoded \o <<"withcancel", "execute", "exitCode", "cancel">>
        onPanic == decoded \o <<"withcancel", "execute", "cancel">>
    IN
    /\ decodeCalls <= 1 /\ ctxCreated <= 1 /\ executeCalls <= 1
    /\ IsPrefix(trace, normal) \/ IsPrefix(trace, onPanic)
    /\ (pc \notin {"idle", "mods"} \/ decodeCalls > 0
          => /\ mods = <<>>
             /\ opts.metadata = IF lastMod = NoMod THEN NilPtr
                                ELSE [set |-> TRUE, b |-> lastMod])
    /\ (ctxCreated = 1
          => decodeCalls = (IF opts.metadata.set THEN 1 ELSE 0))
    /\ (executeCalls = 1
          => /\ ctxCreated = 1
             /\ execArgs = [ctx |-> runs, md |-> md]
             /\ IF lastMod = NoMod THEN md = NilMetadata
                ELSE md \in {r.md : r \in {x \in DecodeAsMetadata(lastMod) :
                                             ~x.fatal}})
    /\ (pc = "fatal" => ctxCreated = 0 /\ executeCalls = 0)
    /\ (cancelCalled => pc \in {"returned", "exited", "panicked"})
    /\ (RunReturned => executeCalls = 1 /\ trace = normal)

C10_Witness ==
    /\ pc = "returned"
    /\ lastMod = "good"
    /\ execArgs.md = "Metadata(good)"
    /\ trace = <<"decode", "withcancel", "execute", "exitCode", "cancel">>
    /\ cancelCalled

====
